---- MODULE Spec2Model ----
(***************************************************************************)
(* A model of the tabular dataset session of excel_tool.py: the active     *)
(* table (self.df), the lookup cache (self.lookup_files), the edit dialog, *)
(* remove-duplicates, lookup and compare, with the pandas operations they  *)
(* call modelled by what they compute on cell values.                      *)
(*                                                                         *)
(* Text is a sequence of one-character strings, so that trimming, case     *)
(* folding, substring search and the string form of a number are computed. *)
(* A float is kept in tenths (15 is 1.5); a date is the first of January   *)
(* of its year.                                                            *)
(***************************************************************************)
EXTENDS Integers, Sequences, FiniteSets, TLC

VARIABLES
    disk,               \* path -> the workbook on disk: a sequence of sheets
    df,                 \* self.df: the active table, or None
    filepath,           \* self.filepath (NoPath is None)
    sheet_names,        \* self.sheet_names
    sheet_cb,           \* the sheet chooser's value
    dupe_col_cb,        \* the remove-duplicates column chooser's value
    dupe_col_values,    \* the columns the remove-duplicates chooser offers
    inferred,           \* history: the dtype of each column when the table was read
    lookup_files,       \* self.lookup_files: path -> cached table (None: no such key)
    shared,             \* the key whose cached table is the same object as self.df
    lookup_file_cb,     \* the lookup tab's file chooser
    lookup_col_cb,      \* the lookup tab's column chooser
    lookup_col_values,  \* the columns the lookup column chooser offers
    lookup_tree,        \* the rows shown in the lookup tab
    last_lookup_result, \* self.last_lookup_result, or None
    dlg,                \* the open "Edit cell" dialog: its row_idx and cols
    last_exported,      \* self.last_exported (NoPath is None)
    cfg,                \* the persisted settings
    written,            \* the workbook last written under a name from a save dialog
    op,                 \* the handler the event loop ran last, with its inputs
    msg,                \* the message box shown last
    raised,             \* TRUE when the last handler ended in an unhandled exception
    nedits,             \* number of confirmed cell edits (bounds the exploration)
    nwrites,            \* number of save and export calls (bounds the exploration)
    tasks,              \* the background send threads started, each with its state
    alive,              \* FALSE once on_close has destroyed the application
    send_dlg            \* the open send dialog: its kind and the file it shows

vars == <<disk, df, filepath, sheet_names, sheet_cb, dupe_col_cb,
          dupe_col_values, inferred, lookup_files,
          shared, lookup_file_cb, lookup_col_cb, lookup_col_values,
          lookup_tree, last_lookup_result, dlg, last_exported, cfg, written,
          op, msg, raised, nedits, nwrites, tasks, alive, send_dlg>>

-----------------------------------------------------------------------------
(* Bounds of the exploration, and the program's constant.                  *)

MaxEdits == 2
MaxDedupRows == 3
MaxLookupRows == 2
MaxCmpRows == 2
MaxWrites == 1
MaxSends == 1
PREVIEW_ROWS == 200

-----------------------------------------------------------------------------
(* Text.                                                                   *)

Range(s) == {s[i] : i \in 1..Len(s)}


\* str.strip(): leading and trailing white space removed.
RECURSIVE LStrip(_)
LStrip(s) == IF s # <<>> /\ Head(s) = " " THEN LStrip(Tail(s)) ELSE s

RECURSIVE RStrip(_)
RStrip(s) ==
    IF s # <<>> /\ s[Len(s)] = " " THEN RStrip(SubSeq(s, 1, Len(s) - 1)) ELSE s

Strip(s) == RStrip(LStrip(s))

\* Case folding of one character, as re.IGNORECASE compares.
LowerChar(c) ==
    CASE c = "A" -> "a"
      [] c = "B" -> "b"
      [] c = "N" -> "n"
      [] c = "T" -> "t"
      [] c = "X" -> "x"
      [] OTHER -> c

Lower(s) == [i \in 1..Len(s) |-> LowerChar(s[i])]

DigitChars == <<"0", "1", "2", "3", "4", "5", "6", "7", "8", "9">>

IsDigit(c) == c \in Range(DigitChars)

DigitVal(c) == CHOOSE d \in 0..9 : DigitChars[d + 1] = c

\* The decimal digits of a natural number.
RECURSIVE Digits(_)
Digits(n) ==
    IF n < 10 THEN <<DigitChars[n + 1]>>
    ELSE Digits(n \div 10) \o <<DigitChars[(n % 10) + 1]>>

\* The number a non-empty sequence of digits denotes.
RECURSIVE DigitsVal(_)
DigitsVal(s) ==
    IF Len(s) = 1 THEN DigitVal(s[1])
    ELSE 10 * DigitsVal(SubSeq(s, 1, Len(s) - 1)) + DigitVal(s[Len(s)])

AllDigits(s) == s # <<>> /\ \A i \in 1..Len(s) : IsDigit(s[i])

-----------------------------------------------------------------------------
(* Cell values: what pandas holds in a cell.                               *)

IntV(n) == [t |-> "int", n |-> n, s |-> <<>>]
FloatV(tenths) == [t |-> "float", n |-> tenths, s |-> <<>>]
StrV(s) == [t |-> "str", n |-> 0, s |-> s]
DateV(year) == [t |-> "date", n |-> year, s |-> <<>>]
NaN == [t |-> "nan", n |-> 0, s |-> <<>>]
NaT == [t |-> "nat", n |-> 0, s |-> <<>>]

IsNA(v) == v.t \in {"nan", "nat"}

\* str(v) of the Python object a cell of an object column holds.
PyStr(v) ==
    CASE v.t = "int" -> Digits(v.n)
      [] v.t = "float" -> Digits(v.n \div 10) \o <<".">> \o Digits(v.n % 10)
      [] v.t = "str" -> v.s
      [] v.t = "date" ->
            Digits(v.n) \o <<"-", "0", "1", "-", "0", "1", " ",
                             "0", "0", ":", "0", "0", ":", "0", "0">>
      [] v.t = "nan" -> <<"n", "a", "n">>
      [] OTHER -> <<"N", "a", "T">>

\* One element of Series.astype(str): a missing value becomes the text "nan"
\* (or "NaT"); a datetime64 column of midnights prints the date alone.
AsStr(dtype, v) ==
    IF dtype = "datetime64" /\ v.t = "date"
    THEN Digits(v.n) \o <<"-", "0", "1", "-", "0", "1">>
    ELSE PyStr(v)

\* Equality of two cells as drop_duplicates and merge hash them: by value, a
\* number never equal to a text, a missing value equal to a missing value.
NativeEq(a, b) ==
    \/ a = b
    \/ a.t = "int" /\ b.t = "float" /\ 10 * a.n = b.n
    \/ a.t = "float" /\ b.t = "int" /\ a.n = 10 * b.n

-----------------------------------------------------------------------------
(* Tables.  A table has its columns in order, a dtype per column, the row  *)
(* labels (the index) and the rows.  None is the absent table.             *)

None == [none |-> TRUE]

ColSet(t) == Range(t.cols)

NRows(t) == Len(t.rows)

Column(t, c) == [i \in 1..NRows(t) |-> t.rows[i][c]]

\* RangeIndex(n): the labels 0 .. n-1.
RangeIndex(n) == [i \in 1..n |-> i - 1]

\* The dtype pandas infers for the cells of one column read from a sheet.
InferDtype(vals) ==
    LET ts == {vals[i].t : i \in 1..Len(vals)} IN
    IF vals = <<>> THEN "object"
    ELSE IF ts = {"int"} THEN "int64"
    ELSE IF ts \subseteq {"int", "float", "nan"} THEN "float64"
    ELSE IF ts \subseteq {"date", "nan"} THEN "datetime64"
    ELSE "object"

\* A cell as a column of that dtype holds it.
Cast(dtype, v) ==
    CASE dtype = "float64" /\ v.t = "int" -> FloatV(10 * v.n)
      [] dtype = "datetime64" /\ v.t = "nan" -> NaT
      [] OTHER -> v

\* The openpyxl reader's cell conversion: a float that is a whole number is
\* read as an integer, and a missing date as an empty cell.
ConvertCell(v) ==
    IF v.t = "float" /\ v.n % 10 = 0 THEN IntV(v.n \div 10)
    ELSE IF v.t = "nat" THEN NaN
    ELSE v

\* pd.read_excel(path, sheet_name=...): the sheet's cells with a dtype inferred
\* per column and a fresh 0-based index.
ReadSheet(sheet) ==
    LET cs == Range(sheet.cols)
        n == Len(sheet.rows)
        cell == [i \in 1..n |-> [c \in cs |-> ConvertCell(sheet.rows[i][c])]]
        dt == [c \in cs |-> InferDtype([i \in 1..n |-> cell[i][c]])]
    IN [cols |-> sheet.cols,
        dtype |-> dt,
        index |-> RangeIndex(n),
        rows |-> [i \in 1..n |-> [c \in cs |-> Cast(dt[c], cell[i][c])]]]

\* The positions of the sheet called name in a workbook.
SheetPos(book, name) == {i \in 1..Len(book) : book[i].name = name}

SheetNames(book) == [i \in 1..Len(book) |-> book[i].name]

-----------------------------------------------------------------------------
(* Remove duplicates.                                                      *)

\* Series.duplicated(keep="first"): row i is a duplicate when an earlier row
\* holds an equal key.  The keys seen so far are kept as pandas' hash table
\* keeps them.
RECURSIVE KeepFirst(_, _, _)
KeepFirst(keys, i, seen) ==
    IF i > Len(keys) THEN <<>>
    ELSE IF \E k \in seen : NativeEq(k, keys[i])
         THEN KeepFirst(keys, i + 1, seen)
         ELSE <<i>> \o KeepFirst(keys, i + 1, seen \cup {keys[i]})

\* df.loc[positions]: the rows at the positions, with their labels.
TakeRows(t, pos) ==
    [t EXCEPT !.index = [j \in 1..Len(pos) |-> t.index[pos[j]]],
              !.rows = [j \in 1..Len(pos) |-> t.rows[pos[j]]]]

\* reset_index(drop=True)
ResetIndex(t) == [t EXCEPT !.index = RangeIndex(NRows(t))]

\* Series.duplicated(keep="last") in the place of keep="first".
RECURSIVE KeepLast(_, _)
KeepLast(keys, i) ==
    IF i > Len(keys) THEN <<>>
    ELSE IF \E j \in (i + 1)..Len(keys) : NativeEq(keys[j], keys[i])
         THEN KeepLast(keys, i + 1)
         ELSE <<i>> \o KeepLast(keys, i + 1)

DropDuplicatesKeepLast(t, col) ==
    ResetIndex(TakeRows(t, KeepLast(Column(t, col), 1)))

\* drop_duplicates without the reset_index that follows it.
DropDuplicatesNoReset(t, col) ==
    TakeRows(t, KeepFirst(Column(t, col), 1, {}))

\* df.drop_duplicates(subset=[col]).reset_index(drop=True)
DropDuplicates(t, col) ==
    ResetIndex(TakeRows(t, KeepFirst(Column(t, col), 1, {})))

-----------------------------------------------------------------------------
(* The files a file dialog can return, and what the user can type.         *)

\* A path is the sequence of its name and its extensions; <<>> is no path.
P1 == <<"p1", ".xlsx">>
P2 == <<"p2", ".xlsx">>
NoPath == <<>>

Paths == {P1, P2}

\* A sheet with the columns k and v: k holds the given cells, v numbers the
\* rows, so that every row is told from every other.
KeyedSheet(name, kcol, vcol, keys) ==
    [name |-> name,
     cols |-> <<kcol, vcol>>,
     rows |-> [i \in 1..Len(keys) |-> (kcol :> keys[i]) @@ (vcol :> IntV(i))]]

SeqsUpTo(S, n) == UNION {[1..m -> S] : m \in 0..n}

\* The workbooks of the session: p1 has two sheets with different columns
\* and numbers of rows; p2 is not a workbook that can be read.
SessionDisk ==
    (P1 :> << KeyedSheet("S1", "k", "v", <<IntV(1), IntV(1), IntV(2)>>),
                [name |-> "S2",
                 cols |-> <<"d", "v">>,
                 rows |-> << ("d" :> DateV(2021)) @@ ("v" :> FloatV(15)) >>] >>)
    @@
    (P2 :> << >>)

-----------------------------------------------------------------------------
(* The session.                                                            *)

Op(name) ==
    [name |-> name, path |-> NoPath, col |-> "", path2 |-> NoPath, col2 |-> "",
     val |-> <<>>, mode |-> "", out |-> NoPath, io |-> <<>>]

Msg(title) == [title |-> title, n1 |-> 0, n2 |-> 0]

lookupVars == <<lookup_files, shared, lookup_file_cb, lookup_col_cb,
                lookup_col_values, lookup_tree, last_lookup_result>>

exportVars == <<last_exported, cfg, written>>

activeVars == <<df, filepath, sheet_names, sheet_cb, dupe_col_cb>>

chooserVars == <<dupe_col_values, inferred>>

sendVars == <<tasks, alive, send_dlg>>

\* The state after RupjyotiExcelApp.__init__ when the settings file names le as
\* the last exported path and no last opened file.
InitWith(d, le) ==
    /\ disk = d
    /\ df = None
    /\ filepath = NoPath
    /\ sheet_names = <<>>
    /\ sheet_cb = ""
    /\ dupe_col_cb = ""
    /\ dupe_col_values = <<>>
    /\ inferred = <<>>
    /\ lookup_files = [p \in Paths |-> None]
    /\ shared = NoPath
    /\ lookup_file_cb = NoPath
    /\ lookup_col_cb = ""
    /\ lookup_col_values = <<>>
    /\ lookup_tree = <<>>
    /\ last_lookup_result = None
    /\ dlg = None
    /\ last_exported = le
    /\ cfg = [last_opened |-> NoPath, last_exported |-> le]
    /\ written = None
    /\ op = Op("__init__")
    /\ msg = Msg("")
    /\ raised = FALSE
    /\ nedits = 0
    /\ nwrites = 0
    /\ tasks = <<>>
    /\ alive = TRUE
    /\ send_dlg = None

\* The state after RupjyotiExcelApp.__init__ with no settings file.
InitOn(d) == InitWith(d, NoPath)

Init == InitOn(SessionDisk)

\* load_excel(path), the workbook being readable.
LoadExcel(path) ==
    LET book == disk[path]
        t == ReadSheet(book[1])
        fresh == lookup_files[path] = None
    IN /\ sheet_names' = SheetNames(book)
       /\ df' = t
       /\ filepath' = path
       /\ sheet_cb' = book[1].name
       /\ dupe_col_values' = t.cols
       /\ inferred' = t.dtype
       /\ dupe_col_cb' = IF t.cols # <<>> THEN t.cols[1] ELSE dupe_col_cb
       /\ lookup_files' = IF fresh THEN [lookup_files EXCEPT ![path] = t]
                                   ELSE lookup_files
       /\ shared' = IF fresh THEN path ELSE NoPath
       /\ lookup_file_cb' = IF fresh THEN path ELSE lookup_file_cb
       /\ lookup_col_values' = IF fresh THEN t.cols ELSE lookup_col_values
       /\ lookup_col_cb' = IF fresh /\ t.cols # <<>> THEN t.cols[1] ELSE lookup_col_cb

\* open_file: the dialog returns path (NoPath when cancelled).
OpenFile(path) ==
    IF path = NoPath THEN UNCHANGED vars
    ELSE
    /\ op' = [Op("open_file") EXCEPT !.path = path]
    /\ raised' = FALSE
    /\ UNCHANGED <<disk, lookup_tree, last_lookup_result, dlg, last_exported,
                   written, nedits, nwrites, sendVars>>
    /\ IF disk[path] = <<>>
       THEN /\ msg' = Msg("Error")
            /\ UNCHANGED <<activeVars, chooserVars, lookup_files, shared,
                           lookup_file_cb, lookup_col_cb, lookup_col_values, cfg>>
       ELSE /\ LoadExcel(path)
            /\ cfg' = [cfg EXCEPT !.last_opened = path]
            /\ UNCHANGED msg

\* The user picks a column in the remove-duplicates chooser, which offers the
\* columns of the sheet last read.
ChooseDupeCol(c) ==
    /\ c \in Range(dupe_col_values)
    /\ dupe_col_cb' = c
    /\ op' = [Op("dupe_col_cb") EXCEPT !.col = c]
    /\ raised' = FALSE
    /\ UNCHANGED <<disk, df, filepath, sheet_names, sheet_cb, chooserVars,
                   lookupVars, dlg, exportVars, msg, nedits, nwrites, sendVars>>

\* remove_duplicates_by_column
RemoveDuplicates ==
    /\ op' = [Op("remove_duplicates_by_column") EXCEPT !.col = dupe_col_cb]
    /\ UNCHANGED <<disk, filepath, sheet_names, sheet_cb, dupe_col_cb,
                   chooserVars, dlg, exportVars, nedits, nwrites, sendVars, lookup_files, lookup_file_cb, lookup_col_cb,
                   lookup_col_values, lookup_tree, last_lookup_result>>
    /\ IF df = None
       THEN msg' = Msg("No data") /\ raised' = FALSE /\ UNCHANGED <<df, shared>>
       ELSE IF dupe_col_cb = ""
       THEN msg' = Msg("Choose column") /\ raised' = FALSE /\ UNCHANGED <<df, shared>>
       ELSE IF dupe_col_cb \notin ColSet(df)
       THEN raised' = TRUE /\ UNCHANGED <<df, shared, msg>>
       ELSE /\ df' = DropDuplicates(df, dupe_col_cb)
            /\ shared' = NoPath
            /\ msg' = [Msg("Done") EXCEPT !.n1 = NRows(df), !.n2 = NRows(df')]
            /\ raised' = FALSE

-----------------------------------------------------------------------------
(* Reload and cell edit.                                                   *)

\* The user picks a sheet in the sheet chooser.
ChooseSheet(name) ==
    /\ name \in Range(sheet_names)
    /\ sheet_cb' = name
    /\ op' = [Op("sheet_cb") EXCEPT !.col = name]
    /\ raised' = FALSE
    /\ UNCHANGED <<disk, df, filepath, sheet_names, dupe_col_cb, dupe_col_values,
                   inferred, lookupVars, dlg, exportVars, msg, nedits, nwrites, sendVars>>

\* reload_sheet
ReloadSheet ==
    /\ op' = [Op("reload_sheet") EXCEPT !.col = sheet_cb]
    /\ raised' = FALSE
    /\ UNCHANGED <<disk, filepath, sheet_names, sheet_cb, lookup_files,
                   lookup_file_cb, lookup_col_cb, lookup_col_values, lookup_tree,
                   last_lookup_result, dlg, exportVars, nedits, nwrites, sendVars>>
    /\ IF filepath = NoPath
       THEN /\ msg' = Msg("No file")
            /\ UNCHANGED <<df, dupe_col_cb, dupe_col_values, inferred, shared>>
       ELSE LET book == disk[filepath]
                pos == IF sheet_cb = "" THEN {i \in 1..Len(book) : i = 1}
                       ELSE SheetPos(book, sheet_cb)
            IN IF pos = {}
               THEN /\ msg' = Msg("Error")
                    /\ UNCHANGED <<df, dupe_col_cb, dupe_col_values, inferred, shared>>
               ELSE LET t == ReadSheet(book[CHOOSE i \in pos : TRUE]) IN
                    /\ df' = t
                    /\ inferred' = t.dtype
                    /\ shared' = NoPath
                    /\ dupe_col_values' = t.cols
                    /\ dupe_col_cb' = IF t.cols # <<>> THEN t.cols[1] ELSE dupe_col_cb
                    /\ msg' = Msg("Loaded")

\* The result of a parse: the value, or the exception.
Parsed(v) == [ok |-> TRUE, v |-> v]
ParseError == [ok |-> FALSE, v |-> NaN]

\* pd.to_numeric(val) of a text: an integer, or a decimal number (the texts of
\* this model have one fractional digit at most); anything else raises.
ToNumeric(val) ==
    LET s == Strip(val)
        dot == {i \in 1..Len(s) : s[i] = "."}
    IN IF AllDigits(s) THEN Parsed(IntV(DigitsVal(s)))
       ELSE IF /\ Len(s) >= 3
               /\ dot = {Len(s) - 1}
               /\ AllDigits(SubSeq(s, 1, Len(s) - 2))
               /\ IsDigit(s[Len(s)])
       THEN Parsed(FloatV(10 * DigitsVal(SubSeq(s, 1, Len(s) - 2)) + DigitVal(s[Len(s)])))
       ELSE ParseError

\* pd.to_datetime(val) of a text: a year of four digits is the first day of
\* that year; a smaller number is "not likely a datetime", a text without a
\* date is an unknown format, and both raise.
ToDatetime(val) ==
    IF AllDigits(val) /\ Len(val) = 4 /\ DigitsVal(val) \in 1678..2261
    THEN Parsed(DateV(DigitsVal(val)))
    ELSE ParseError

\* newv of do_save: val parsed under the dtype the column has now, and val
\* itself when the column is of neither kind, is not a column of the table,
\* or the parse raises.
NewValue(t, col, val) ==
    IF col \notin ColSet(t) THEN StrV(val)
    ELSE IF t.dtype[col] \in {"int64", "float64"}
    THEN (IF ToNumeric(val).ok THEN ToNumeric(val).v ELSE StrV(val))
    ELSE IF t.dtype[col] = "datetime64"
    THEN (IF ToDatetime(val).ok THEN ToDatetime(val).v ELSE StrV(val))
    ELSE StrV(val)

\* The dtype of a column after a value is set in it, the column being upcast
\* when it cannot hold the value.
DtypeAfterSet(dtype, v) ==
    IF dtype = "int64"
    THEN (IF v.t = "int" \/ (v.t = "float" /\ v.n % 10 = 0) THEN "int64"
          ELSE IF v.t \in {"float", "nan"} THEN "float64"
          ELSE "object")
    ELSE IF dtype = "float64"
    THEN (IF v.t \in {"int", "float", "nan"} THEN "float64" ELSE "object")
    ELSE IF dtype = "datetime64"
    THEN (IF v.t \in {"date", "nat"} THEN "datetime64" ELSE "object")
    ELSE "object"

\* A cell as a column of the dtype holds it after an upcast or a set.
Recast(dtype, v) ==
    IF dtype = "int64" /\ v.t = "float" THEN IntV(v.n \div 10)
    ELSE IF dtype = "float64" /\ v.t = "int" THEN FloatV(10 * v.n)
    ELSE v

\* The missing value a column of the dtype holds.
Missing(dtype) == IF dtype = "datetime64" THEN NaT ELSE NaN

\* The position of a label in the index (0 when it is not a label).
PosOf(t, label) ==
    IF \E i \in 1..Len(t.index) : t.index[i] = label
    THEN CHOOSE i \in 1..Len(t.index) : t.index[i] = label
    ELSE 0

\* Setting with enlargement, rows: the frame reindexed with the new label
\* last, its row all missing; a column of integers becomes a column of floats.
AddRow(t, label) ==
    LET dt == [c \in ColSet(t) |->
                 IF t.dtype[c] = "int64" THEN "float64" ELSE t.dtype[c]]
    IN [t EXCEPT !.dtype = dt,
                 !.index = Append(t.index, label),
                 !.rows = [i \in 1..(NRows(t) + 1) |->
                            IF i <= NRows(t)
                            THEN [c \in ColSet(t) |-> Recast(dt[c], t.rows[i][c])]
                            ELSE [c \in ColSet(t) |-> Missing(dt[c])]]]

\* Setting with enlargement, columns: a new last column of missing values.
AddColumn(t, col) ==
    [t EXCEPT !.cols = Append(t.cols, col),
              !.dtype = [c \in ColSet(t) \cup {col} |->
                           IF c = col THEN "float64" ELSE t.dtype[c]],
              !.rows = [i \in 1..NRows(t) |->
                          [c \in ColSet(t) \cup {col} |->
                              IF c = col THEN NaN ELSE t.rows[i][c]]]]

\* The value set in an existing cell, the column upcast as the value needs
\* (pandas 1 and 2 upcast; the warning pandas 2.1 gives is not an error).
SetCell(t, pos, col, v) ==
    LET d == DtypeAfterSet(t.dtype[col], v) IN
    [t EXCEPT !.dtype = [t.dtype EXCEPT ![col] = d],
              !.rows = [i \in 1..NRows(t) |->
                          [t.rows[i] EXCEPT ![col] =
                              IF i = pos THEN Recast(d, v) ELSE Recast(d, @)]]]

\* self.df.at[row_idx, col] = newv: a label or a column that the frame does
\* not have is added to it (DataFrame._set_value falls back to .loc).
SetAt(t, label, col, v) ==
    LET t1 == IF PosOf(t, label) = 0 THEN AddRow(t, label) ELSE t
        t2 == IF col \in ColSet(t1) THEN t1 ELSE AddColumn(t1, col)
    IN SetCell(t2, PosOf(t2, label), col, v)

\* The rows the preview lists: the first PREVIEW_ROWS, each under its label.
TreeIids(t) ==
    IF t = None THEN {}
    ELSE {t.index[i] : i \in 1..(IF NRows(t) < PREVIEW_ROWS THEN NRows(t)
                                  ELSE PREVIEW_ROWS)}

NoFocus == -1

\* edit_selected_cell with the preview's focus on the row sel (NoFocus: on no
\* row): the dialog opens with the row's label and the columns of the table.
EditOpen(sel) ==
    /\ dlg = None
    /\ sel \in TreeIids(df) \cup {NoFocus}
    /\ op' = Op("edit_selected_cell")
    /\ UNCHANGED <<disk, activeVars, chooserVars, lookupVars,
                   exportVars, nedits, nwrites, sendVars>>
    /\ IF sel = NoFocus
       THEN msg' = Msg("Select row") /\ raised' = FALSE /\ UNCHANGED dlg
       ELSE IF df.cols = <<>>
       THEN raised' = TRUE /\ UNCHANGED <<dlg, msg>>
       ELSE /\ dlg' = [row_idx |-> sel, cols |-> df.cols]
            /\ raised' = FALSE
            /\ UNCHANGED msg

\* The user closes the dialog without saving.
EditClose ==
    /\ dlg # None
    /\ dlg' = None
    /\ op' = Op("dlg.destroy")
    /\ raised' = FALSE
    /\ UNCHANGED <<disk, activeVars, chooserVars, lookupVars,
                   exportVars, msg, nedits, nwrites, sendVars>>

\* do_save of the dialog, with col chosen among the dialog's columns and val
\* in its entry.  A cached lookup table that is the same object as self.df
\* changes with it.
EditConfirm(col, val) ==
    /\ dlg # None
    /\ nedits < MaxEdits
    /\ col \in Range(dlg.cols)
    /\ op' = [Op("do_save") EXCEPT !.col = col, !.val = val]
    /\ df' = SetAt(df, dlg.row_idx, col, NewValue(df, col, val))
    /\ lookup_files' = IF shared # NoPath
                       THEN [lookup_files EXCEPT ![shared] = df']
                       ELSE lookup_files
    /\ dlg' = None
    /\ raised' = FALSE
    /\ nedits' = nedits + 1
    /\ UNCHANGED <<disk, nwrites, sendVars, filepath, sheet_names, sheet_cb, dupe_col_cb,
                   dupe_col_values, inferred, shared, lookup_file_cb,
                   lookup_col_cb, lookup_col_values, lookup_tree,
                   last_lookup_result, exportVars, msg>>

-----------------------------------------------------------------------------
(* Lookup.                                                                 *)

\* re.match of the pattern from position i against s from position j, under
\* re.IGNORECASE.  Of the characters that are special to re, the patterns of
\* this model hold "." (any character) and "$" (the end of the text).
RECURSIVE MatchHere(_, _, _, _)
MatchHere(pat, i, s, j) ==
    IF i > Len(pat) THEN TRUE
    ELSE IF pat[i] = "$" THEN j = Len(s) + 1 /\ MatchHere(pat, i + 1, s, j)
    ELSE /\ j <= Len(s)
         /\ (pat[i] = "." \/ LowerChar(pat[i]) = LowerChar(s[j]))
         /\ MatchHere(pat, i + 1, s, j + 1)

\* re.compile(pat, re.IGNORECASE).search(s) is not None
RegexSearch(pat, s) == \E j \in 1..(Len(s) + 1) : MatchHere(pat, 1, s, j)

\* The same with regex=False: pat is a substring of s, case ignored.
LiteralSearch(pat, s) ==
    \E j \in 0..(Len(s) - Len(pat)) :
        \A i \in 1..Len(pat) : LowerChar(pat[i]) = LowerChar(s[j + i])

\* The Exact entry with the query as typed, not trimmed.
ExactHitNoStrip(dtype, v, val) == Strip(AsStr(dtype, v)) = val

\* One row's entry in the mask lookup_find computes.
ExactHit(dtype, v, val) == Strip(AsStr(dtype, v)) = Strip(val)

PartialHit(dtype, v, val) == RegexSearch(val, AsStr(dtype, v))

LookupMask(t, col, val, mode) ==
    [i \in 1..NRows(t) |->
        IF mode = "Exact" THEN ExactHit(t.dtype[col], t.rows[i][col], val)
        ELSE PartialHit(t.dtype[col], t.rows[i][col], val)]

\* The positions a boolean mask selects, in order.
RECURSIVE MaskPositions(_, _)
MaskPositions(mask, i) ==
    IF i > Len(mask) THEN <<>>
    ELSE IF mask[i] THEN <<i>> \o MaskPositions(mask, i + 1)
    ELSE MaskPositions(mask, i + 1)

\* df.loc[mask].reset_index(drop=True)
SelectRows(t, mask) == ResetIndex(TakeRows(t, MaskPositions(mask, 1)))

\* lookup_browse_file: the dialog returns p (NoPath when cancelled).
LookupBrowse(p) ==
    IF p = NoPath THEN UNCHANGED vars
    ELSE
    /\ op' = [Op("lookup_browse_file") EXCEPT !.path = p]
    /\ raised' = FALSE
    /\ UNCHANGED <<disk, activeVars, chooserVars, lookup_tree,
                   last_lookup_result, dlg, exportVars, nedits, nwrites, sendVars>>
    /\ IF disk[p] = <<>>
       THEN /\ msg' = Msg("Error")
            /\ UNCHANGED <<lookup_files, shared, lookup_file_cb, lookup_col_cb,
                           lookup_col_values>>
       ELSE LET t == ReadSheet(disk[p][1]) IN
            /\ lookup_files' = [lookup_files EXCEPT ![p] = t]
            /\ shared' = IF shared = p THEN NoPath ELSE shared
            /\ lookup_file_cb' = p
            /\ lookup_col_values' = t.cols
            /\ lookup_col_cb' = IF t.cols # <<>> THEN t.cols[1] ELSE lookup_col_cb
            /\ msg' = Msg("Loaded")

\* The user picks one of the loaded files in the lookup tab's file chooser.
LookupChooseFile(p) ==
    /\ lookup_files[p] # None
    /\ lookup_file_cb' = p
    /\ op' = [Op("lookup_file_cb") EXCEPT !.path = p]
    /\ raised' = FALSE
    /\ UNCHANGED <<disk, activeVars, chooserVars, lookup_files, shared,
                   lookup_col_cb, lookup_col_values, lookup_tree,
                   last_lookup_result, dlg, exportVars, msg, nedits, nwrites, sendVars>>

\* The user picks one of the columns the lookup column chooser offers.
LookupChooseCol(c) ==
    /\ c \in Range(lookup_col_values)
    /\ lookup_col_cb' = c
    /\ op' = [Op("lookup_col_cb") EXCEPT !.col = c]
    /\ raised' = FALSE
    /\ UNCHANGED <<disk, activeVars, chooserVars, lookup_files, shared,
                   lookup_file_cb, lookup_col_values, lookup_tree,
                   last_lookup_result, dlg, exportVars, msg, nedits, nwrites, sendVars>>

\* lookup_find with val in the value entry and mode in the match chooser.
LookupFind(val, mode) ==
    /\ op' = [Op("lookup_find") EXCEPT !.path = lookup_file_cb,
                                       !.col = lookup_col_cb,
                                       !.val = val, !.mode = mode]
    /\ UNCHANGED <<disk, activeVars, chooserVars, lookup_files, shared,
                   lookup_file_cb, lookup_col_cb, lookup_col_values, dlg,
                   exportVars, nedits, nwrites, sendVars>>
    /\ IF lookup_file_cb = NoPath \/ lookup_col_cb = ""
       THEN /\ msg' = Msg("Missing")
            /\ raised' = FALSE
            /\ UNCHANGED <<lookup_tree, last_lookup_result>>
       ELSE IF lookup_files[lookup_file_cb] = None
       THEN /\ msg' = Msg("Missing")
            /\ raised' = FALSE
            /\ UNCHANGED <<lookup_tree, last_lookup_result>>
       ELSE IF lookup_col_cb \notin ColSet(lookup_files[lookup_file_cb])
       THEN /\ raised' = TRUE
            /\ UNCHANGED <<lookup_tree, last_lookup_result, msg>>
       ELSE LET t == lookup_files[lookup_file_cb]
                res == SelectRows(t, LookupMask(t, lookup_col_cb, val, mode))
            IN /\ raised' = FALSE
               /\ IF res.rows = <<>>
                  THEN /\ msg' = Msg("No match")
                       /\ lookup_tree' = <<>>
                       /\ UNCHANGED last_lookup_result
                  ELSE /\ lookup_tree' = res.rows
                       /\ last_lookup_result' = res
                       /\ msg' = [Msg("Found") EXCEPT !.n1 = NRows(res)]

-----------------------------------------------------------------------------
(* Writing a workbook.                                                     *)

LowerExt(e) == IF e = ".XLSX" THEN ".xlsx" ELSE e

\* ensure_xlsx(path)
EnsureXlsx(path) ==
    IF path # <<>> /\ LowerExt(path[Len(path)]) = ".xlsx" THEN path
    ELSE Append(path, ".xlsx")

\* The names a save dialog returns: they are not among the files that the open
\* dialogs offer.
OutPaths == {<<"out", ".xlsx">>}

\* One cell of df2[col].astype(str) in the retry of save_multiple_sheets.
CellAsText(v) ==
    StrV(IF v.t = "date" THEN AsStr("datetime64", v) ELSE PyStr(v))

RowAsText(r) == [c \in DOMAIN r |-> CellAsText(r[c])]

\* A sheet's rows with every cell as text; a joined row of the Matches sheet
\* is the pair of rows it joins, and both are coerced.
RowsAsText(rows) ==
    [i \in 1..Len(rows) |->
        IF DOMAIN rows[i] = {"left", "right"}
        THEN [left |-> RowAsText(rows[i].left), right |-> RowAsText(rows[i].right)]
        ELSE RowAsText(rows[i])]

\* How a write through ExcelWriter ends: "ok"; "open", the writer cannot open
\* the file; "sheet", to_excel raises on a sheet.  save_multiple_sheets tries
\* a sheet that raised once more with its cells as text: "retry" is that
\* second attempt succeeding, "sheet" is it raising as well.
WriteOutcomes == {"ok", "open", "sheet"}
RetryOutcomes == {"ok", "retry", "open", "sheet"}

\* The attempts save_multiple_sheets makes on a sheet, in order.
SheetAttempts(w) ==
    IF w = "ok" THEN <<"to_excel">>
    ELSE IF w = "retry" THEN <<"to_excel!", "astype(str)", "to_excel">>
    ELSE IF w = "sheet" THEN <<"to_excel!", "astype(str)", "to_excel!">>
    ELSE <<"ExcelWriter!">>

\* save_multiple_sheets(path, sheets) with the outcome w on every sheet: the
\* workbook written under ensure_xlsx(path), or None when it returns False.
SaveMultipleSheets(path, sheets, w) ==
    IF w = "ok" THEN [path |-> EnsureXlsx(path), sheets |-> sheets]
    ELSE IF w = "retry"
    THEN [path |-> EnsureXlsx(path),
          sheets |-> [n \in DOMAIN sheets |-> RowsAsText(sheets[n])]]
    ELSE None

\* An export handler that records the path whatever save_multiple_sheets
\* returned.
ExportDoneAlways(res, p, errTitle) ==
    /\ written' = IF res # None THEN res ELSE written
    /\ msg' = Msg(IF res # None THEN "Exported" ELSE errTitle)
    /\ last_exported' = p
    /\ cfg' = [cfg EXCEPT !.last_exported = p]

\* What an export handler does with the result of save_multiple_sheets.
ExportDone(res, p, errTitle) ==
    IF res # None
    THEN /\ written' = res
         /\ msg' = Msg("Exported")
         /\ last_exported' = p
         /\ cfg' = [cfg EXCEPT !.last_exported = p]
    ELSE /\ msg' = Msg(errTitle)
         /\ UNCHANGED exportVars

\* DataFrame.applymap(trim): every text cell stripped, the rest as they are.
Trimmed(t) ==
    [t EXCEPT !.rows = [i \in 1..NRows(t) |->
        [c \in ColSet(t) |->
            IF t.rows[i][c].t = "str" THEN StrV(Strip(t.rows[i][c].s))
            ELSE t.rows[i][c]]]]

\* trim_spaces
TrimSpaces ==
    /\ op' = Op("trim_spaces")
    /\ raised' = FALSE
    /\ UNCHANGED <<disk, filepath, sheet_names, sheet_cb, dupe_col_cb,
                   chooserVars, lookup_files, lookup_file_cb, lookup_col_cb,
                   lookup_col_values, lookup_tree, last_lookup_result, dlg,
                   exportVars, nedits, nwrites, sendVars>>
    /\ IF df = None
       THEN msg' = Msg("No data") /\ UNCHANGED <<df, shared>>
       ELSE /\ df' = Trimmed(df)
            /\ shared' = NoPath
            /\ msg' = Msg("Done")

\* The sheet name save_file writes under.
SaveSheetName == IF sheet_cb = "" THEN "Sheet1" ELSE sheet_cb

\* A sheet written with its header and without its rows.
ToExcelHeaderOnly(t, name) == [name |-> name, cols |-> t.cols, rows |-> << >>]

\* The sheet df.to_excel(writer, index=False, sheet_name=name) writes.
ToExcel(t, name) == [name |-> name, cols |-> t.cols, rows |-> t.rows]

\* What is left of the file when to_excel raises after the writer has opened
\* (and so emptied) it: nothing that can be read (r < 0), or the workbook the
\* writer saves on leaving the with block, holding the r rows written so far.
Damaged(t, name, r) ==
    IF r < 0 \/ r > NRows(t) THEN << >>
    ELSE << [name |-> name, cols |-> t.cols, rows |-> SubSeq(t.rows, 1, r)] >>

\* A save that gives up, with an error box, when the backup copy fails.
SaveFileBackupRequired(bk, w, r) ==
    /\ raised' = FALSE
    /\ UNCHANGED <<activeVars, chooserVars, lookupVars, dlg, written, nedits, sendVars>>
    /\ nwrites < MaxWrites
    /\ nwrites' = nwrites + 1
    /\ IF df = None \/ filepath = NoPath
       THEN /\ op' = Op("save_file")
            /\ msg' = Msg("No data")
            /\ UNCHANGED <<disk, last_exported, cfg>>
       ELSE IF ~bk
       THEN /\ op' = [Op("save_file") EXCEPT !.path = filepath, !.col = SaveSheetName,
                                             !.io = <<"copy2!">>]
            /\ msg' = Msg("Save error")
            /\ UNCHANGED <<disk, last_exported, cfg>>
       ELSE /\ op' = [Op("save_file") EXCEPT
                         !.path = filepath, !.col = SaveSheetName,
                         !.io = <<"copy2", IF w = "ok" THEN "to_excel" ELSE "to_excel!">>]
            /\ IF w = "ok"
               THEN /\ disk' = [disk EXCEPT ![filepath] = <<ToExcel(df, SaveSheetName)>>]
                    /\ msg' = Msg("Saved")
                    /\ last_exported' = filepath
                    /\ cfg' = [cfg EXCEPT !.last_exported = filepath]
               ELSE /\ msg' = Msg("Save error")
                    /\ UNCHANGED <<disk, last_exported, cfg>>

\* save_file, with the outcome of the backup copy (bk) and of the write (w,
\* and r for what a failed write leaves).  self.filepath is set whenever
\* self.df is, so that the branch to save_as is never taken.
SaveFile(bk, w, r) ==
    /\ raised' = FALSE
    /\ UNCHANGED <<activeVars, chooserVars, lookupVars, dlg, written, nedits, sendVars>>
    /\ nwrites < MaxWrites
    /\ nwrites' = nwrites + 1
    /\ IF df = None \/ filepath = NoPath
       THEN /\ op' = Op("save_file")
            /\ msg' = Msg("No data")
            /\ UNCHANGED <<disk, last_exported, cfg>>
       ELSE /\ op' = [Op("save_file") EXCEPT
                         !.path = filepath,
                         !.col = SaveSheetName,
                         !.io = <<IF bk THEN "copy2" ELSE "copy2!",
                                  IF w = "ok" THEN "to_excel"
                                  ELSE IF w = "open" THEN "ExcelWriter!"
                                  ELSE "to_excel!">>]
            /\ IF w = "ok"
               THEN /\ disk' = [disk EXCEPT ![filepath] = <<ToExcel(df, SaveSheetName)>>]
                    /\ msg' = Msg("Saved")
                    /\ last_exported' = filepath
                    /\ cfg' = [cfg EXCEPT !.last_exported = filepath]
               ELSE /\ disk' = IF w = "open" THEN disk
                               ELSE [disk EXCEPT ![filepath] = Damaged(df, SaveSheetName, r)]
                    /\ msg' = Msg("Save error")
                    /\ UNCHANGED <<last_exported, cfg>>

\* save_as with the name the save dialog returns (NoPath when cancelled).
SaveAs(p, w) ==
    IF df # None /\ p = NoPath THEN UNCHANGED vars
    ELSE
    /\ raised' = FALSE
    /\ UNCHANGED <<disk, activeVars, chooserVars, lookupVars, dlg, nedits, sendVars>>
    /\ nwrites < MaxWrites
    /\ nwrites' = nwrites + 1
    /\ IF df = None
       THEN /\ op' = Op("save_as")
            /\ msg' = Msg("No data")
            /\ UNCHANGED exportVars
       ELSE /\ op' = [Op("save_as") EXCEPT
                         !.out = p,
                         !.io = <<IF w = "ok" THEN "to_excel"
                                  ELSE IF w = "open" THEN "ExcelWriter!"
                                  ELSE "to_excel!">>]
            /\ IF w = "ok"
               THEN /\ written' = [path |-> p, sheets |-> [Sheet1 |-> df.rows]]
                    /\ msg' = Msg("Saved")
                    /\ last_exported' = p
                    /\ cfg' = [cfg EXCEPT !.last_exported = p]
               ELSE /\ msg' = Msg("Save error")
                    /\ UNCHANGED exportVars

\* export_current
ExportCurrent(p, w) ==
    IF df # None /\ p = NoPath THEN UNCHANGED vars
    ELSE
    /\ raised' = FALSE
    /\ UNCHANGED <<disk, activeVars, chooserVars, lookupVars, dlg, nedits, sendVars>>
    /\ nwrites < MaxWrites
    /\ nwrites' = nwrites + 1
    /\ IF df = None
       THEN /\ op' = Op("export_current")
            /\ msg' = Msg("No data")
            /\ UNCHANGED exportVars
       ELSE /\ op' = [Op("export_current") EXCEPT !.out = p, !.io = SheetAttempts(w)]
            /\ ExportDone(SaveMultipleSheets(p, [Sheet1 |-> df.rows], w), p,
                          "Export error")

\* filter_duplicates_by_column_export
FilterDuplicatesExport(p, w) ==
    IF df # None /\ dupe_col_cb \in ColSet(df) /\ p = NoPath THEN UNCHANGED vars
    ELSE
    /\ UNCHANGED <<disk, activeVars, chooserVars, lookupVars, dlg, nedits, sendVars>>
    /\ nwrites < MaxWrites
    /\ nwrites' = nwrites + 1
    /\ IF df = None
       THEN /\ op' = Op("filter_duplicates_by_column_export")
            /\ msg' = Msg("No data")
            /\ raised' = FALSE
            /\ UNCHANGED exportVars
       ELSE IF dupe_col_cb = ""
       THEN /\ op' = Op("filter_duplicates_by_column_export")
            /\ msg' = Msg("Choose column")
            /\ raised' = FALSE
            /\ UNCHANGED exportVars
       ELSE IF dupe_col_cb \notin ColSet(df)
       THEN /\ op' = [Op("filter_duplicates_by_column_export") EXCEPT !.col = dupe_col_cb]
            /\ raised' = TRUE
            /\ UNCHANGED <<exportVars, msg>>
       ELSE /\ op' = [Op("filter_duplicates_by_column_export") EXCEPT
                         !.col = dupe_col_cb, !.out = p, !.io = SheetAttempts(w)]
            /\ raised' = FALSE
            /\ ExportDone(SaveMultipleSheets(p,
                              [Cleaned |-> DropDuplicates(df, dupe_col_cb).rows], w),
                          p, "Export error")

\* lookup_export
LookupExport(p, w) ==
    LET nothing == last_lookup_result = None \/ NRows(last_lookup_result) = 0 IN
    IF ~nothing /\ p = NoPath THEN UNCHANGED vars
    ELSE
    /\ raised' = FALSE
    /\ UNCHANGED <<disk, activeVars, chooserVars, lookupVars, dlg, nedits, sendVars>>
    /\ nwrites < MaxWrites
    /\ nwrites' = nwrites + 1
    /\ IF nothing
       THEN /\ op' = Op("lookup_export")
            /\ msg' = Msg("No data")
            /\ UNCHANGED exportVars
       ELSE /\ op' = [Op("lookup_export") EXCEPT !.out = p, !.io = SheetAttempts(w)]
            /\ ExportDone(SaveMultipleSheets(p,
                              [LookupResult |-> last_lookup_result.rows], w),
                          p, "Error")

-----------------------------------------------------------------------------
(* Compare.                                                                *)

\* lib.infer_dtype(values, skipna=False) of a key column.
InferredType(t, c) ==
    LET ts == {t.rows[i][c].t : i \in 1..NRows(t)} IN
    IF t.dtype[c] = "int64" THEN "integer"
    ELSE IF t.dtype[c] = "float64" THEN "floating"
    ELSE IF t.dtype[c] = "datetime64" THEN "datetime64"
    ELSE IF ts = {} THEN "empty"
    ELSE IF ts = {"str"} THEN "string"
    ELSE IF ts = {"int"} THEN "integer"
    ELSE IF "int" \in ts THEN "mixed-integer"
    ELSE "mixed"

\* Whether pd.merge refuses the two key columns (_maybe_coerce_merge_keys):
\* a text column against a number column, or a date column against any other.
MergeRaises(t1, c1, t2, c2) ==
    LET d1 == t1.dtype[c1]
        d2 == t2.dtype[c2]
        i1 == InferredType(t1, c1)
        i2 == InferredType(t2, c2)
        numeric == {"int64", "float64"}
        bool_types == {"integer", "mixed-integer", "boolean", "empty"}
        string_types == {"string", "unicode", "mixed", "bytes", "empty"}
    IN /\ (NRows(t1) = 0) = (NRows(t2) = 0)
       /\ d1 # d2
       /\ ~(d1 \in numeric /\ d2 \in numeric)
       /\ IF (d1 = "object" /\ d2 \in numeric) \/ (d1 \in numeric /\ d2 = "object")
          THEN /\ ~(i1 \in bool_types /\ i2 \in bool_types)
               /\ (i1 \in string_types) # (i2 \in string_types)
          ELSE d1 = "datetime64" \/ d2 = "datetime64"

\* s1, s2 of compare_and_export: the key as text, trimmed.  fillna("") finds
\* nothing to fill, astype(str) having turned the missing cells into text.
CmpKey(t, c, i) == Strip(AsStr(t.dtype[c], t.rows[i][c]))

CmpKeyNoStrip(t, c, i) == AsStr(t.dtype[c], t.rows[i][c])

CmpKeys(t, c) == {CmpKey(t, c, i) : i \in 1..NRows(t)}

\* The right rows joined to left row i, in right order.
RECURSIVE JoinRow(_, _, _, _, _, _, _)
JoinRow(t1, c1, t2, c2, byText, i, j) ==
    IF j > NRows(t2) THEN <<>>
    ELSE LET eq == IF byText THEN CmpKey(t1, c1, i) = CmpKey(t2, c2, j)
                   ELSE NativeEq(t1.rows[i][c1], t2.rows[j][c2])
         IN (IF eq THEN <<[left |-> t1.rows[i], right |-> t2.rows[j]]>> ELSE <<>>)
            \o JoinRow(t1, c1, t2, c2, byText, i, j + 1)

RECURSIVE JoinFrom(_, _, _, _, _, _)
JoinFrom(t1, c1, t2, c2, byText, i) ==
    IF i > NRows(t1) THEN <<>>
    ELSE JoinRow(t1, c1, t2, c2, byText, i, 1)
         \o JoinFrom(t1, c1, t2, c2, byText, i + 1)

\* merged of compare_and_export: the inner join on the key cells, and, when
\* merge refuses the key columns, the inner join on the keys as trimmed text.
\* A joined row is kept as the pair of rows it joins.
InnerMerge(t1, c1, t2, c2) ==
    JoinFrom(t1, c1, t2, c2, MergeRaises(t1, c1, t2, c2), 1)

\* The rows of one table whose key is no key of the other, on the keys as text that is not trimmed.
OnlyInNoStrip(t1, c1, t2, c2) ==
    SelectRows(t1, [i \in 1..NRows(t1) |->
        CmpKeyNoStrip(t1, c1, i) \notin {CmpKeyNoStrip(t2, c2, j) : j \in 1..NRows(t2)}])

\* df1.loc[~s1.isin(set(s2))].reset_index(drop=True)
OnlyIn(t1, c1, t2, c2) ==
    SelectRows(t1, [i \in 1..NRows(t1) |-> CmpKey(t1, c1, i) \notin CmpKeys(t2, c2)])

\* The columns a compare dialog's column chooser offers for the file p.
BrowsedCols(p) == IF disk[p] = <<>> THEN {} ELSE Range(disk[p][1].cols)

\* do_compare and compare_and_export: the files and columns chosen in the
\* compare window, the name the save dialog returns (NoPath when cancelled),
\* and how the write ends.
CompareAndExport(p1, c1, p2, c2, outp, w) ==
    /\ c1 \in BrowsedCols(p1)
    /\ c2 \in BrowsedCols(p2)
    /\ IF outp = NoPath THEN UNCHANGED vars
       ELSE
       /\ op' = [Op("compare_and_export") EXCEPT !.path = p1, !.col = c1,
                                                 !.path2 = p2, !.col2 = c2,
                                                 !.out = outp,
                                                 !.io = SheetAttempts(w)]
       /\ raised' = FALSE
       /\ UNCHANGED <<disk, activeVars, chooserVars, lookupVars, dlg, nedits, nwrites, sendVars>>
       /\ LET df1 == ReadSheet(disk[p1][1])
              df2 == ReadSheet(disk[p2][1])
              merged == InnerMerge(df1, c1, df2, c2)
              only1 == OnlyIn(df1, c1, df2, c2)
              only2 == OnlyIn(df2, c2, df1, c1)
              sheets == [Matches |-> merged,
                         Only_in_file1 |-> only1.rows,
                         Only_in_file2 |-> only2.rows]
              res == SaveMultipleSheets(outp, sheets, w)
          IN IF res # None
             THEN /\ written' = res
                  /\ msg' = Msg("Exported")
                  /\ last_exported' = outp
                  /\ cfg' = [cfg EXCEPT !.last_exported = outp]
             ELSE /\ msg' = Msg("Export error")
                  /\ UNCHANGED exportVars

-----------------------------------------------------------------------------
(* Remove-duplicates on every small table.                                 *)

DedupKeys ==
    {IntV(1), IntV(2), StrV(<<"1">>), StrV(<<"x">>), FloatV(15), NaN}

DedupDisks ==
    {(P1 :> <<KeyedSheet("S1", "k", "v", ks)>>) @@ (P2 :> <<>>) :
        ks \in SeqsUpTo(DedupKeys, MaxDedupRows)}

InitDedup == \E d \in DedupDisks : InitOn(d)

NextDedup ==
    \/ \E p \in Paths : OpenFile(p)
    \/ \E c \in {"k", "v"} : ChooseDupeCol(c)
    \/ RemoveDuplicates

SpecDedup == InitDedup /\ [][NextDedup]_vars

\* A step in which remove_duplicates_by_column reaches drop_duplicates.
DedupStep ==
    /\ op'.name = "remove_duplicates_by_column"
    /\ df # None
    /\ dupe_col_cb \in ColSet(df)

\* The i-th smallest element of a set of numbers.
Nth(S, i) == CHOOSE x \in S : Cardinality({y \in S : y < x}) = i - 1

\* The rows of t at the positions of S, in increasing position.
RowsAt(t, S) == [j \in 1..Cardinality(S) |-> t.rows[Nth(S, j)]]

StrKey(t, c, i) == AsStr(t.dtype[c], t.rows[i][c])

\* C1 as stated: remove-duplicates keeps exactly the first row for each
\* distinct string form of the key, in the original order, leaves no two rows
\* whose keys have the same string form, and reports before - after removed.
C1_FirstPerStringForm ==
    [][DedupStep =>
        LET c == dupe_col_cb
            first == {i \in 1..NRows(df) :
                        \A j \in 1..(i - 1) : StrKey(df, c, j) # StrKey(df, c, i)}
        IN /\ df'.rows = RowsAt(df, first)
           /\ \A i, j \in 1..NRows(df') :
                 i # j => StrKey(df', c, i) # StrKey(df', c, j)
           /\ msg'.n1 - msg'.n2 = NRows(df) - NRows(df')]_vars

\* C1 as amended: remove-duplicates keeps exactly the first row for each
\* distinct key value, two keys being the same when the cells are equal as
\* values (a number is never the same key as a text that prints alike, and a
\* missing cell is the same key as any other missing cell); the retained rows
\* keep their order, no two of them hold equal values in the key column, and
\* the rows removed number the count before minus the count after.
C1_FirstPerValue ==
    [][DedupStep =>
        LET c == dupe_col_cb
            first == {i \in 1..NRows(df) :
                        \A j \in 1..(i - 1) :
                            ~NativeEq(df.rows[j][c], df.rows[i][c])}
        IN /\ df'.rows = RowsAt(df, first)
           /\ df'.cols = df.cols
           /\ \A i, j \in 1..NRows(df') :
                 i # j => ~NativeEq(df'.rows[i][c], df'.rows[j][c])
           /\ msg'.n1 = NRows(df)
           /\ msg'.n2 = NRows(df')
           /\ msg'.n1 - msg'.n2 = NRows(df) - Cardinality(first)]_vars

\* Remove-duplicates has dropped a row and two retained rows hold keys that
\* print alike (the number 1 and the text "1").
C1_Witness ==
    /\ op.name = "remove_duplicates_by_column"
    /\ ~raised
    /\ msg.title = "Done"
    /\ msg.n2 < msg.n1
    /\ \E i, j \in 1..NRows(df) :
          i # j /\ StrKey(df, op.col, i) = StrKey(df, op.col, j)

\* C2: remove-duplicates by the column of the remove-duplicates that ran just
\* before it leaves the table as it is (rows, order and the 0-based contiguous
\* index) and removes no row.
C2_DedupIdempotent ==
    [][(/\ op.name = "remove_duplicates_by_column"
        /\ msg.title = "Done"
        /\ op.col = dupe_col_cb
        /\ DedupStep)
       => /\ df'.rows = df.rows
          /\ df'.cols = df.cols
          /\ df'.index = RangeIndex(NRows(df))
          /\ df.index = RangeIndex(NRows(df))
          /\ msg'.n1 = msg'.n2]_vars

\* Remove-duplicates has run on a table that an earlier remove-duplicates had
\* shortened, and removed nothing.
C2_Witness ==
    /\ op.name = "remove_duplicates_by_column"
    /\ ~raised
    /\ op.col = "k"
    /\ msg.title = "Done"
    /\ msg.n1 = msg.n2
    /\ filepath = P1
    /\ NRows(df) < Len(disk[P1][1].rows)

-----------------------------------------------------------------------------
(* Lookup on every small table.                                            *)

LookupKeys ==
    {StrV(<<"a">>), StrV(<<" ", "a">>), StrV(<<"A", "b">>), StrV(<<"$", "1">>),
     IntV(1), NaN}

LookupQueries ==
    {<<>>, <<"a">>, <<"a", " ">>, <<"B">>, <<"n">>, <<".">>, <<"1">>,
     <<"$", "1">>, <<"a", "$">>}

LookupDisks ==
    {(P1 :> <<KeyedSheet("S1", "k", "v", ks)>>) @@ (P2 :> <<>>) :
        ks \in SeqsUpTo(LookupKeys, MaxLookupRows)}

InitLookup == \E d \in LookupDisks : InitOn(d)

NextLookup ==
    \/ \E p \in Paths \cup {NoPath} : LookupBrowse(p)
    \/ \E p \in Paths : LookupChooseFile(p)
    \/ \E c \in {"k", "v"} : LookupChooseCol(c)
    \/ \E val \in LookupQueries, mode \in {"Exact", "Partial"} :
          LookupFind(val, mode)

SpecLookup == InitLookup /\ [][NextLookup]_vars

\* A step in which lookup_find in the given mode reaches the table.
LookupStep(mode) ==
    /\ op'.name = "lookup_find"
    /\ op'.mode = mode
    /\ lookup_file_cb # NoPath
    /\ lookup_col_cb # ""
    /\ lookup_files[lookup_file_cb] # None
    /\ lookup_col_cb \in ColSet(lookup_files[lookup_file_cb])

LookupTable == lookup_files[lookup_file_cb]

\* C6: an Exact lookup lists exactly the rows whose cell in the lookup column,
\* as text and trimmed, equals the trimmed query, in table order; with no such
\* row it ends in the "No match" notice with nothing listed, not in an error.
C6_ExactLookup ==
    [][LookupStep("Exact") =>
        LET t == LookupTable
            c == lookup_col_cb
            hits == {i \in 1..NRows(t) :
                       Strip(AsStr(t.dtype[c], t.rows[i][c])) = Strip(op'.val)}
        IN /\ ~raised'
           /\ lookup_tree' = RowsAt(t, hits)
           /\ hits = {} => msg'.title = "No match"
           /\ hits # {} => /\ msg'.title = "Found"
                           /\ msg'.n1 = Cardinality(hits)
                           /\ last_lookup_result'.rows = RowsAt(t, hits)
                           /\ last_lookup_result'.index = RangeIndex(Cardinality(hits))]_vars

\* An Exact lookup whose query carries white space has listed a row; another
\* has found nothing.
C6_Witness ==
    /\ op.name = "lookup_find"
    /\ ~raised
    /\ op.mode = "Exact"
    /\ op.val = <<"a", " ">>
    /\ msg.title = "Found"
    /\ Len(lookup_tree) = 2
    /\ lookup_tree[1]["k"] # lookup_tree[2]["k"]

C6_WitnessNoMatch ==
    /\ op.name = "lookup_find"
    /\ ~raised
    /\ op.mode = "Exact"
    /\ msg.title = "No match"
    /\ lookup_tree = <<>>
    /\ last_lookup_result # None

\* C7 as stated: a Partial lookup lists a row exactly when its cell is not
\* missing and the cell's text contains the query as a literal substring,
\* case ignored.
C7_PartialLiteral ==
    [][LookupStep("Partial") =>
        LET t == LookupTable
            c == lookup_col_cb
            hits == {i \in 1..NRows(t) :
                       /\ ~IsNA(t.rows[i][c])
                       /\ LiteralSearch(op'.val, AsStr(t.dtype[c], t.rows[i][c]))}
        IN ~raised' /\ lookup_tree' = RowsAt(t, hits)]_vars

\* The part of C7 about missing cells alone: a Partial lookup never lists a
\* row whose cell in the lookup column is missing.
C7_MissingNeverListed ==
    [][LookupStep("Partial") =>
        \A i \in 1..Len(lookup_tree') : ~IsNA(lookup_tree'[i][lookup_col_cb])]_vars

\* C8 as stated: every row an Exact lookup lists is a row the Partial lookup
\* with the same table, column and query selects.
C8_ExactWithinPartial ==
    [][LookupStep("Exact") =>
        LET t == LookupTable
            partial == SelectRows(t, LookupMask(t, lookup_col_cb, op'.val, "Partial"))
        IN Range(lookup_tree') \subseteq Range(partial.rows)]_vars

-----------------------------------------------------------------------------
(* Compare on every pair of small tables.                                  *)

\* The keys of A and of B: the number 1 of A meets the 1.0 of a column of B
\* that has a missing cell, and the " x" of A the "x" of B.
CmpKeysA == {IntV(1), StrV(<<"x">>), StrV(<<" ", "x">>)}
CmpKeysB == {IntV(1), StrV(<<"x">>), NaN}

CmpDisks ==
    {(P1 :> <<KeyedSheet("A", "k", "v", ka)>>) @@
     (P2 :> <<KeyedSheet("B", "k", "v", kb)>>) :
        ka \in SeqsUpTo(CmpKeysA, MaxCmpRows),
        kb \in SeqsUpTo(CmpKeysB, MaxCmpRows)}

InitCompare == \E d \in CmpDisks : InitOn(d)

NextCompare ==
    \E c1, c2 \in {"k", "v"}, outp \in OutPaths \cup {NoPath}, w \in {"ok", "open"} :
        CompareAndExport(P1, c1, P2, c2, outp, w)

SpecCompare == InitCompare /\ [][NextCompare]_vars

\* The state after a compare that wrote its workbook.
Compared == op.name = "compare_and_export" /\ msg.title = "Exported"

TableA == ReadSheet(disk[op.path][1])
TableB == ReadSheet(disk[op.path2][1])

\* C3 as stated: the Matches sheet has one row for every pair of a row of A
\* and a row of B whose keys, as trimmed text, are equal.
C3_MatchedCount ==
    Compared =>
        Len(written.sheets.Matches) =
            Cardinality({ij \in (1..NRows(TableA)) \X (1..NRows(TableB)) :
                CmpKey(TableA, op.col, ij[1]) = CmpKey(TableB, op.col2, ij[2])})

\* C4 as stated: every row of A is in Only_in_file1 or in a row of Matches,
\* and never in both; the same for B and Only_in_file2.
C4_Partition ==
    Compared =>
        /\ \A i \in 1..NRows(TableA) :
              (TableA.rows[i] \in Range(written.sheets.Only_in_file1))
              # (\E m \in Range(written.sheets.Matches) : m.left = TableA.rows[i])
        /\ \A j \in 1..NRows(TableB) :
              (TableB.rows[j] \in Range(written.sheets.Only_in_file2))
              # (\E m \in Range(written.sheets.Matches) : m.right = TableB.rows[j])

\* C5: Only_in_file1 holds exactly the rows of A whose key, as trimmed text,
\* is the trimmed text key of no row of B, in the order of A; Only_in_file2
\* the same for B.
C5_Unmatched ==
    Compared =>
        /\ written.sheets.Only_in_file1 =
              RowsAt(TableA, {i \in 1..NRows(TableA) :
                  \A j \in 1..NRows(TableB) :
                      CmpKey(TableA, op.col, i) # CmpKey(TableB, op.col2, j)})
        /\ written.sheets.Only_in_file2 =
              RowsAt(TableB, {j \in 1..NRows(TableB) :
                  \A i \in 1..NRows(TableA) :
                      CmpKey(TableA, op.col, i) # CmpKey(TableB, op.col2, j)})

\* A compare has left a row of A out of Only_in_file1 because its key equals
\* a key of B once both are trimmed, and has put another row of A into it.
C5_Witness ==
    /\ Compared
    /\ Len(written.sheets.Only_in_file1) = 1
    /\ NRows(TableA) = 2
    /\ \E i \in 1..NRows(TableA), j \in 1..NRows(TableB) :
          /\ TableA.rows[i][op.col] # TableB.rows[j][op.col2]
          /\ CmpKey(TableA, op.col, i) = CmpKey(TableB, op.col2, j)
          /\ TableA.rows[i][op.col].t = "str"

-----------------------------------------------------------------------------
(* The session on the active table: files opened, sheets reloaded,         *)
(* duplicates removed and cells edited through the dialog, in any order.   *)

\* What the user types in the dialog's entry: a year, which is a number too,
\* and a text that is neither.
EditInputs == {<<"2", "0", "2", "0">>, <<"a", "b">>}

SessionCols == {"k", "v", "d"}

Next ==
    \/ \E p \in Paths \cup {NoPath} : OpenFile(p)
    \/ \E n \in {"S1", "S2"} : ChooseSheet(n)
    \/ ReloadSheet
    \/ RemoveDuplicates
    \/ \E sel \in 0..MaxDedupRows \cup {NoFocus} : EditOpen(sel)
    \/ EditClose
    \/ \E c \in SessionCols, val \in EditInputs : EditConfirm(c, val)

Spec == Init /\ [][Next]_vars

\* A step of do_save.
EditStep == nedits' # nedits

\* The value the edited text has under the type the column was read with.
UnderInferredType(col, val) ==
    LET T == IF col \in DOMAIN inferred THEN inferred[col] ELSE "object" IN
    IF T \in {"int64", "float64"} /\ ToNumeric(val).ok THEN ToNumeric(val).v
    ELSE IF T = "datetime64" /\ ToDatetime(val).ok THEN ToDatetime(val).v
    ELSE StrV(val)

\* C9: a cell edit never fails, and the edited cell then holds the input
\* parsed under the column's inferred type (a number for a numeric column, a
\* date for a date column) when it parses, the literal text otherwise, also
\* when an earlier edit stored unparseable text in the same column.
C9_EditReadback ==
    [][EditStep =>
          LET pos == PosOf(df', dlg.row_idx) IN
          /\ ~raised'
          /\ pos # 0
          /\ op'.col \in ColSet(df')
          /\ NativeEq(df'.rows[pos][op'.col], UnderInferredType(op'.col, op'.val))
      ]_vars

\* C10: a confirmed cell edit changes one cell and nothing else, whatever
\* happened between the opening of the dialog and the confirmation: the
\* columns and the number of rows are the same, the other cells hold the
\* values they held, and the index is 0-based and contiguous.
C10_EditOneCell ==
    [][EditStep =>
          /\ df'.cols = df.cols
          /\ NRows(df') = NRows(df)
          /\ df'.index = RangeIndex(NRows(df'))
          /\ \A i \in 1..NRows(df) : \A c \in ColSet(df) :
                \/ df.index[i] = dlg.row_idx /\ c = op'.col
                \/ NativeEq(df'.rows[i][c], df.rows[i][c])
      ]_vars

-----------------------------------------------------------------------------
(* Saving: the active table loaded, changed, saved and exported.           *)

\* The workbooks: p1 has one sheet, of two texts that differ in white space
\* only; p2 is not a workbook that can be read.
SaveDisk ==
    (P1 :> << [name |-> "S1",
               cols |-> <<"k">>,
               rows |-> << ("k" :> StrV(<<" ", "a">>)), ("k" :> StrV(<<"a">>)) >>] >>)
    @@
    (P2 :> << >>)

\* The path of an export of an earlier run, kept in the settings file.
OldExport == <<"old", ".xlsx">>

InitSave == \E le \in {NoPath, OldExport} : InitWith(SaveDisk, le)

NextSave ==
    \/ \E p \in Paths \cup {NoPath} : OpenFile(p)
    \/ ReloadSheet
    \/ RemoveDuplicates
    \/ TrimSpaces
    \/ \E sel \in 0..1 \cup {NoFocus} : EditOpen(sel)
    \/ EditConfirm("k", <<"a", "b">>)
    \/ \E bk \in BOOLEAN, w \in WriteOutcomes, r \in -1..0 : SaveFile(bk, w, r)
    \/ \E p \in OutPaths \cup {NoPath}, w \in WriteOutcomes : SaveAs(p, w)
    \/ \E p \in OutPaths \cup {NoPath}, w \in RetryOutcomes : ExportCurrent(p, w)

SpecSave == InitSave /\ [][NextSave]_vars

\* A load that succeeds, a reload that succeeds, and a save, save-as or export
\* of the active table that succeeds.
LoadOk == op'.name = "open_file" /\ op'.path # NoPath /\ disk[op'.path] # << >>
ReloadOk == op'.name = "reload_sheet" /\ msg'.title = "Loaded"
SaveOk == op'.name = "save_file" /\ msg'.title = "Saved"
SaveAsOk == op'.name = "save_as" /\ msg'.title = "Saved"
ExportOk == op'.name = "export_current" /\ msg'.title = "Exported"
ChangeStep == op'.name \in {"do_save", "remove_duplicates_by_column", "trim_spaces"}

\* Two sequences of rows hold the same cells, a number as the same number
\* whether integer or float and a missing cell as a missing cell.
SameCells(r1, r2) ==
    /\ Len(r1) = Len(r2)
    /\ \A i \in 1..Len(r1) :
          /\ DOMAIN r1[i] = DOMAIN r2[i]
          /\ \A c \in DOMAIN r1[i] :
                \/ NativeEq(r1[i][c], r2[i][c])
                \/ IsNA(r1[i][c]) /\ IsNA(r2[i][c])

\* C11: the session has no table (Empty) until the first load that succeeds;
\* no operation takes the table away again; a load or a reload that succeeds
\* replaces the active table wholesale by the table read from the file; a
\* cell edit, remove-duplicates or trim leaves a table present (Dirty); and a
\* save, save-as or export that succeeds leaves the active table as it is
\* with the file written holding its cells (Loaded: no unsaved edits).
C11_StateMachine ==
    [][/\ (df = None /\ df' # None => LoadOk)
       /\ (df # None => df' # None)
       /\ (LoadOk => /\ df' = ReadSheet(disk[op'.path][1])
                     /\ filepath' = op'.path)
       /\ (ReloadOk => /\ SheetPos(disk[filepath], op'.col) # {}
                       /\ \A i \in SheetPos(disk[filepath], op'.col) :
                             df' = ReadSheet(disk[filepath][i]))
       /\ (ChangeStep /\ df # None => df' # None)
       /\ (SaveOk => /\ df' = df
                     /\ disk'[filepath] # << >>
                     /\ SameCells(ReadSheet(disk'[filepath][1]).rows, df.rows))
       /\ (SaveAsOk \/ ExportOk =>
              /\ df' = df
              /\ \/ SameCells(written'.sheets.Sheet1, df.rows)
                 \/ written'.sheets.Sheet1 = RowsAsText(df.rows))
      ]_vars

\* A table that was edited and then saved has been reloaded from its file.
C11_Witness ==
    /\ op.name = "reload_sheet"
    /\ msg.title = "Loaded"
    /\ nedits > 0
    /\ last_exported = filepath
    /\ df # None
    /\ \E i \in 1..NRows(df) : df.rows[i]["k"] = StrV(<<"a", "b">>)

\* A save, save-as or export of the active table whose last write attempt
\* raised.
WriteFailed ==
    /\ op'.name \in {"save_file", "save_as", "export_current"}
    /\ op'.io # << >>
    /\ op'.io[Len(op'.io)] \in {"ExcelWriter!", "to_excel!"}

\* C12: a failed save, save-as or export leaves the active table, the active
\* file path, the last-exported path and the persisted last-exported entry
\* unchanged, and an error box is shown; the last-exported path changes only
\* in a step that wrote the file it then names.
C12_FailedWriteKeepsState ==
    [][/\ (WriteFailed =>
             /\ df' = df
             /\ filepath' = filepath
             /\ last_exported' = last_exported
             /\ cfg' = cfg
             /\ msg'.title \in {"Save error", "Export error"})
       /\ (last_exported' # last_exported \/ cfg'.last_exported # cfg.last_exported =>
             /\ SaveOk \/ SaveAsOk \/ ExportOk
             /\ ~WriteFailed
             /\ last_exported' = IF SaveOk THEN filepath ELSE op'.out
             /\ cfg'.last_exported = last_exported')
      ]_vars

\* A save of an edited table has failed while an earlier export is on record.
C12_Witness ==
    /\ op.name = "save_file"
    /\ msg.title = "Save error"
    /\ nedits > 0
    /\ filepath = P1
    /\ last_exported = OldExport
    /\ cfg.last_exported = OldExport

\* C13: no cell edit, remove-duplicates, trim, load, reload, save or export on
\* the active table removes an entry of the lookup cache or changes the table
\* cached under any path, the path of the active table's own file included.
C13_CacheIndependent ==
    [][op'.name \in {"do_save", "remove_duplicates_by_column", "trim_spaces",
                     "open_file", "reload_sheet", "save_file", "save_as",
                     "export_current"}
          => \A p \in Paths :
                lookup_files[p] # None => lookup_files'[p] = lookup_files[p]
      ]_vars

\* C14: in every save-in-place with a table and a file path, the backup copy
\* is attempted first and the overwrite of the file is attempted exactly
\* once after it, whether the copy succeeded or failed; the save succeeds
\* exactly when that one write succeeds, so that a failed copy neither
\* prevents the write nor shows as a failure of the save.
C14_BackupThenOneWrite ==
    [][op'.name = "save_file" /\ df # None /\ filepath # NoPath =>
          /\ Len(op'.io) = 2
          /\ op'.io[1] \in {"copy2", "copy2!"}
          /\ op'.io[2] \in {"to_excel", "ExcelWriter!", "to_excel!"}
          /\ (op'.io[2] = "to_excel") = (msg'.title = "Saved")
          /\ msg'.title \in {"Saved", "Save error"}
          /\ op'.io[2] = "to_excel" =>
                disk'[filepath] = << ToExcel(df, SaveSheetName) >>
      ]_vars

\* A save of an edited table has succeeded although its backup copy failed.
C14_Witness ==
    /\ op.name = "save_file"
    /\ op.io = <<"copy2!", "to_excel">>
    /\ msg.title = "Saved"
    /\ nedits > 0
    /\ disk[P1][1].rows[1]["k"] = StrV(<<"a", "b">>)

\* C15: every operation that writes a table to a file tries a sheet whose
\* write raised exactly once more, with every cell coerced to text, and shows
\* a write error only when that second attempt raised as well (or the file
\* could not be opened for writing).
C15_RetryAsText ==
    [][op'.name \in {"save_file", "save_as", "export_current"} =>
          /\ \A i \in DOMAIN op'.io :
                op'.io[i] = "to_excel!" /\ (i = 1 \/ op'.io[i - 1] # "astype(str)")
                   => /\ i + 2 = Len(op'.io)
                      /\ op'.io[i + 1] = "astype(str)"
                      /\ op'.io[i + 2] \in {"to_excel", "to_excel!"}
          /\ msg'.title \in {"Save error", "Export error"} =>
                \/ op'.io[Len(op'.io)] = "ExcelWriter!"
                \/ /\ Len(op'.io) >= 3
                   /\ SubSeq(op'.io, Len(op'.io) - 2, Len(op'.io))
                        = <<"to_excel!", "astype(str)", "to_excel!">>
      ]_vars

-----------------------------------------------------------------------------
\* Sending: the send dialogs, the background threads they start and the end
\* of the session.

\* os.path.exists(path): a workbook of the disk or the file last written.
FileExists(p) == p \in Paths \/ (written # None /\ written.path = p)

\* The file a send dialog offers: the last exported file when it exists, else
\* the one the open dialog returns (NoPath when cancelled).
SendPath(p) ==
    IF last_exported # NoPath /\ FileExists(last_exported) THEN last_exported ELSE p

\* What the email dialog can hold when Send Email is pressed: recipients or
\* none, and all, some or none of SMTP host, sender and password.
Recipients == {"to", ""}
Credentials == {"all", "some", "none"}

\* How a send thread can end.
SendResults == {"ok", "failed"}

\* send_email_dialog
SendEmailDialog(p) ==
    IF SendPath(p) = NoPath THEN UNCHANGED vars
    ELSE
    /\ op' = [Op("send_email_dialog") EXCEPT !.path = SendPath(p)]
    /\ raised' = FALSE
    /\ send_dlg' = [kind |-> "email", path |-> SendPath(p)]
    /\ UNCHANGED <<disk, activeVars, chooserVars, lookupVars, dlg, exportVars,
                   msg, nedits, nwrites, tasks, alive>>

\* do_send of the email dialog
EmailDoSend(to, creds) ==
    /\ send_dlg # None
    /\ send_dlg.kind = "email"
    /\ op' = [Op("send_email_dialog.do_send") EXCEPT !.path = send_dlg.path,
                                                     !.mode = creds]
    /\ raised' = FALSE
    /\ UNCHANGED <<disk, activeVars, chooserVars, lookupVars, dlg, exportVars,
                   nedits, nwrites, alive>>
    /\ IF to = "" \/ creds = "some"
       THEN msg' = Msg("Missing") /\ UNCHANGED <<send_dlg, tasks>>
       ELSE IF creds = "none"
       THEN msg' = Msg("Skipped") /\ send_dlg' = None /\ UNCHANGED tasks
       ELSE /\ Len(tasks) < MaxSends
            /\ send_dlg' = None
            /\ tasks' = Append(tasks, [kind |-> "email", path |-> send_dlg.path,
                                       state |-> "running"])
            /\ UNCHANGED msg

\* A send thread that records the file it sent as the last exported one.
SendEmailRecording(i, res) ==
    /\ alive
    /\ i \in DOMAIN tasks
    /\ tasks[i].state = "running"
    /\ tasks' = [tasks EXCEPT ![i].state = res]
    /\ msg' = Msg(IF res = "ok" THEN "Email" ELSE "Email error")
    /\ op' = [Op("_send_email") EXCEPT !.path = tasks[i].path]
    /\ raised' = FALSE
    /\ last_exported' = tasks[i].path
    /\ UNCHANGED <<disk, activeVars, chooserVars, lookupVars, dlg, cfg, written,
                   nedits, nwrites, send_dlg, alive>>

\* _send_email running to its end in its thread: the message box of the
\* success or of the exception caught.
SendEmail(i, res) ==
    /\ alive
    /\ i \in DOMAIN tasks
    /\ tasks[i].state = "running"
    /\ tasks' = [tasks EXCEPT ![i].state = res]
    /\ msg' = Msg(IF res = "ok" THEN "Email" ELSE "Email error")
    /\ op' = [Op("_send_email") EXCEPT !.path = tasks[i].path]
    /\ raised' = FALSE
    /\ UNCHANGED <<disk, activeVars, chooserVars, lookupVars, dlg, exportVars,
                   nedits, nwrites, send_dlg, alive>>

\* send_whatsapp_web_dialog.  The body of its do_send is the one line of the
\* def; the two statements after it belong to the dialog function and read
\* num, which is no name there: the call raises NameError once the window
\* exists, before the button is added and before any thread is started.
SendWhatsappWebDialog(p) ==
    IF SendPath(p) = NoPath THEN UNCHANGED vars
    ELSE
    /\ op' = [Op("send_whatsapp_web_dialog") EXCEPT !.path = SendPath(p)]
    /\ raised' = TRUE
    /\ send_dlg' = [kind |-> "whatsapp", path |-> SendPath(p)]
    /\ UNCHANGED <<disk, activeVars, chooserVars, lookupVars, dlg, exportVars,
                   msg, nedits, nwrites, tasks, alive>>

\* on_close: the settings are saved and the window destroyed; mainloop and
\* main return, and the interpreter exits without waiting for the daemon
\* threads, which end with it.
OnClose ==
    /\ alive
    /\ alive' = FALSE
    /\ op' = Op("on_close")
    /\ raised' = FALSE
    /\ cfg' = [cfg EXCEPT !.last_opened = filepath, !.last_exported = last_exported]
    /\ tasks' = [i \in DOMAIN tasks |->
                    IF tasks[i].state = "running"
                    THEN [tasks[i] EXCEPT !.state = "killed"] ELSE tasks[i]]
    /\ send_dlg' = None
    /\ dlg' = None
    /\ UNCHANGED <<disk, activeVars, chooserVars, lookupVars, last_exported,
                   written, msg, nedits, nwrites>>

InitSend == InitWith(SaveDisk, NoPath)

\* The handlers run in the main loop while the window exists; a send thread
\* runs beside them.
NextSend ==
    \/ alive /\ \E p \in {P1, NoPath} : OpenFile(p)
    \/ alive /\ EditOpen(0)
    \/ alive /\ EditConfirm("k", <<"a", "b">>)
    \/ alive /\ \E p \in OutPaths \cup {NoPath}, w \in {"ok", "open"} : SaveAs(p, w)
    \/ alive /\ \E p \in {P1, NoPath} : SendEmailDialog(p)
    \/ alive /\ \E to \in Recipients, creds \in Credentials : EmailDoSend(to, creds)
    \/ alive /\ \E p \in {P1, NoPath} : SendWhatsappWebDialog(p)
    \/ \E i \in 1..MaxSends, res \in SendResults : SendEmail(i, res)
    \/ OnClose

SpecSend == InitSend /\ [][NextSend]_vars

\* The send thread i ends in this step.
TaskEnds(i) ==
    /\ i \in DOMAIN tasks
    /\ tasks[i].state = "running"
    /\ tasks'[i].state \in SendResults

\* C16: a background send, at its start and at its end and whatever the
\* session did in between, writes neither the active table, the lookup
\* cache, the active file path nor the last-exported path; a send that fails
\* shows its error box and the session goes on.
C16_SendKeepsSession ==
    [][\A i \in 1..MaxSends :
          TaskEnds(i) \/ (i \in DOMAIN tasks' /\ i \notin DOMAIN tasks) =>
             /\ df' = df
             /\ lookup_files' = lookup_files
             /\ filepath' = filepath
             /\ last_exported' = last_exported
             /\ cfg' = cfg
             /\ alive' /\ ~raised'
             /\ TaskEnds(i) /\ tasks'[i].state = "failed" => msg'.title = "Email error"
      ]_vars

\* An email send of a file picked in the dialog has failed in a session that
\* has edited its table and exported it, and the session goes on.
C16_Witness ==
    /\ alive
    /\ Len(tasks) >= 1
    /\ tasks[1].state = "failed"
    /\ tasks[1].path = P1
    /\ msg.title = "Email error"
    /\ nedits > 0
    /\ last_exported \in OutPaths
    /\ df # None

\* A send thread that is running gets to run: _send_email has no loop and its
\* connection attempt has a timeout of 30 seconds.
SpecSendFair ==
    SpecSend /\ WF_vars(\E i \in 1..MaxSends, res \in SendResults : SendEmail(i, res))

\* C17: a send that has been started eventually reports success or failure,
\* whatever the session does afterwards, closing the application included.
C17_SendReports ==
    \A i \in 1..MaxSends :
       (i \in DOMAIN tasks /\ tasks[i].state = "running")
          ~> (i \in DOMAIN tasks /\ tasks[i].state \in SendResults)

\* What does hold: a send that has been started reports, or ends with the
\* application without a report.
C17_ReportsOrKilled ==
    \A i \in 1..MaxSends :
       (i \in DOMAIN tasks /\ tasks[i].state = "running")
          ~> (i \in DOMAIN tasks /\ tasks[i].state \in SendResults \cup {"killed"})

\* C19: opening the WhatsApp send dialog never fails and starts no send;
\* confirming it with a phone number starts exactly one send of the file the
\* dialog was opened with, and with an empty number shows an error.
C19_WhatsappDialog ==
    op.name = "send_whatsapp_web_dialog" => ~raised

-----------------------------------------------------------------------------
\* Lookup in two files with different columns, and the exports of the lookup
\* result and of the cleaned table.

ExportDisk ==
    (P1 :> << [name |-> "S1", cols |-> <<"a">>,
               rows |-> << ("a" :> StrV(<<"x">>)), ("a" :> StrV(<<"y">>)) >>] >>)
    @@ (P2 :> << [name |-> "S1", cols |-> <<"b">>,
                  rows |-> << ("b" :> StrV(<<"x">>)) >>] >>)

ExportQueries == {<<"x">>, <<"z">>}

InitExport == InitOn(ExportDisk)

NextExport ==
    \/ \E p \in Paths \cup {NoPath} : LookupBrowse(p)
    \/ \E p \in Paths : LookupChooseFile(p)
    \/ \E c \in {"a", "b"} : LookupChooseCol(c)
    \/ \E val \in ExportQueries, mode \in {"Exact", "Partial"} : LookupFind(val, mode)
    \/ \E p \in OutPaths \cup {NoPath}, w \in RetryOutcomes : LookupExport(p, w)
    \/ OpenFile(P1)
    \/ \E p \in OutPaths \cup {NoPath}, w \in RetryOutcomes : FilterDuplicatesExport(p, w)

SpecExport == InitExport /\ [][NextExport]_vars

\* C18: a lookup whose column is no column of the file selected ends in an
\* error shown to the user, not in an exception that no handler catches, and
\* leaves the last lookup result, the list shown, the last-exported path and
\* the tables as they were.
C18_ColumnNotFound ==
    [][/\ op'.name = "lookup_find"
       /\ op'.path # NoPath
       /\ op'.col # ""
       /\ lookup_files[op'.path] # None
       /\ op'.col \notin ColSet(lookup_files[op'.path])
       => /\ ~raised'
          /\ msg'.title \in {"Error", "Missing"}
          /\ UNCHANGED <<last_lookup_result, lookup_tree, last_exported, cfg,
                         df, filepath, lookup_files>>
      ]_vars

\* C20: lookup_export writes exactly the rows of the most recent lookup, which
\* are the rows the lookup list shows; when that lookup found none it says
\* that there is nothing to export and writes no file.
C20_ExportsLatestLookup ==
    [][op'.name = "lookup_export" /\ nwrites' # nwrites =>
          IF lookup_tree = << >>
          THEN msg'.title = "No data" /\ written' = written
          ELSE written' # written =>
                  written'.sheets.LookupResult \in {lookup_tree, RowsAsText(lookup_tree)}
      ]_vars

-----------------------------------------------------------------------------
\* The four exports under the names a save dialog can return.

\* Names typed with an extension of their own: the dialog's default extension
\* is added only to a name that has none.
TypedOutPaths == {<<"out", ".csv">>, <<"out", ".XLSX">>}

InitNames == InitOn(ExportDisk)

NextNames ==
    \/ OpenFile(P1)
    \/ LookupBrowse(P2)
    \/ \E val \in ExportQueries : LookupFind(val, "Exact")
    \/ \E p \in OutPaths \cup TypedOutPaths \cup {NoPath}, w \in RetryOutcomes :
          \/ ExportCurrent(p, w)
          \/ FilterDuplicatesExport(p, w)
          \/ LookupExport(p, w)
          \/ CompareAndExport(P1, "a", P2, "b", p, w)

SpecNames == InitNames /\ [][NextNames]_vars

\* An export whose last write attempt succeeded.
ExportWrote ==
    /\ op'.name \in {"export_current", "filter_duplicates_by_column_export",
                     "lookup_export", "compare_and_export"}
    /\ op'.io # << >>
    /\ op'.io[Len(op'.io)] = "to_excel"

\* C21: after every export that succeeded, the last-exported path of the
\* session and the one in the settings are the path of the file written,
\* whatever name was chosen, one that does not end in .xlsx included.
C21_LastExportedIsWritten ==
    [][ExportWrote =>
          /\ written' # None
          /\ last_exported' = written'.path
          /\ cfg'.last_exported = written'.path
      ]_vars

-----------------------------------------------------------------------------
\* Saving a workbook of two sheets.

InitSheets == InitOn(SessionDisk)

NextSheets ==
    \/ \E p \in Paths \cup {NoPath} : OpenFile(p)
    \/ \E n \in {"S1", "S2"} : ChooseSheet(n)
    \/ ReloadSheet
    \/ RemoveDuplicates
    \/ \E bk \in BOOLEAN, w \in WriteOutcomes, r \in -1..0 : SaveFile(bk, w, r)

SpecSheets == InitSheets /\ [][NextSheets]_vars

\* The names of the sheets of the active file that the active table can have
\* been read from.  The remove-duplicates chooser holds the columns of the
\* sheet read last, by load_excel or by reload_sheet, and the sheets of the
\* session's workbook differ in their columns.
ActiveSheetNames ==
    IF filepath = NoPath THEN {}
    ELSE {disk[filepath][i].name : i \in {j \in 1..Len(disk[filepath]) :
                                             disk[filepath][j].cols = dupe_col_values}}

\* C22: a save-in-place that succeeds writes the active table under the name
\* of the sheet it was read from, also when another sheet has been selected
\* in the sheet chooser and not reloaded.
C22_SaveUnderReadSheet ==
    [][/\ op'.name = "save_file"
       /\ Len(op'.io) = 2
       /\ op'.io[2] = "to_excel"
       => /\ disk'[filepath] # << >>
          /\ \A n \in ActiveSheetNames : disk'[filepath][1].name = n
      ]_vars

====
